---- MODULE Spec2Model ----
(***************************************************************************)
(* The screenshot pipeline of inventory_app: QueueProcessor (task queue,   *)
(* background worker threads, start/stop), the image tiler and OCR         *)
(* pre-screen, the per-image LLM call and the merge-on-write CSV store.    *)
(***************************************************************************)
EXTENDS Integers, Sequences, FiniteSets, TLC

\* Bounds of the model.
MaxTasks == 2        \* enqueue_screenshot calls per run
MaxClock == 2        \* readings of datetime.now() are 0..MaxClock
MaxWidth == 9        \* small screenshots are 1..MaxWidth pixels wide
MaxHeight == 5       \* and 1..MaxHeight pixels high

\* Program constants.
Cols == 4
Rows == 2

Threads == {1, 2}    \* the worker thread of the first start() and the one of a restart
NoThread == 0        \* worker_thread = None, csv_lock not held
HotkeyThreads == {1}       \* main.py: the keyboard listener is the only producer
ConcurrentCallers == {1, 2} \* several threads calling enqueue_screenshot at once
Callers == ConcurrentCallers

None == <<>>         \* Python None / JSON null
Count(n) == <<n>>    \* an integer count
Text(s) == <<s>>     \* a Python str, s its characters

\* item.get(key, default) of a dict.
ItemGet(item, key, default) == IF key \in DOMAIN item THEN item[key] ELSE default

----------------------------------------------------------------------------
\* Images. A captured image is its pixel size and what is drawn in each of
\* the Rows x Cols grid cells (row-major).

ImageNames == {"blank", "single", "pair", "scene", "tiny"}
QueueImages == {"blank", "single", "tiny"}    \* the images the hotkey thread captures

Image(name) ==
    CASE name = "blank" ->
           [width |-> 1360, height |-> 300,
            cells |-> <<"blank", "blank", "dots", "blank", "blank", "blank", "blank", "blank">>]
      [] name = "single" ->
           [width |-> 1360, height |-> 300,
            cells |-> <<"blank", "wood", "blank", "blank", "blank", "label", "blank", "blank">>]
      [] name = "pair" ->
           [width |-> 1360, height |-> 300,
            cells |-> <<"blank", "wood", "blank", "stone", "dots", "blank", "blank", "blank">>]
      [] name = "scene" ->
           [width |-> 1360, height |-> 300,
            cells |-> <<"blank", "wood", "blank", "stone", "dots", "label", "blank", "blank">>]
      [] name = "tiny" ->
           [width |-> 3, height |-> 300,
            cells |-> <<"blank", "blank", "blank", "blank", "blank", "blank", "blank", "blank">>]

\* Mutant of split_image_into_subimages: the columns top to bottom, one after the other.
SplitColumnMajor(img) ==
    LET subimage_width == img.width \div Cols
        subimage_height == img.height \div Rows
    IN [i \in 1..(Rows * Cols) |->
          LET col == (i - 1) \div Rows
              row == (i - 1) % Rows
              left == col * subimage_width
              top == row * subimage_height
          IN [left |-> left, top |-> top,
              right |-> left + subimage_width, bottom |-> top + subimage_height,
              cell |-> img.cells[row * Cols + col + 1]]]

\* split_image_into_subimages: Rows*Cols crop boxes, left-to-right, top-to-bottom.
split_image_into_subimages(img) ==
    LET subimage_width == img.width \div Cols
        subimage_height == img.height \div Rows
    IN [i \in 1..(Rows * Cols) |->
          LET row == (i - 1) \div Cols
              col == (i - 1) % Cols
              left == col * subimage_width
              top == row * subimage_height
          IN [left |-> left, top |-> top,
              right |-> left + subimage_width, bottom |-> top + subimage_height,
              cell |-> img.cells[i]]]

ZeroSize(tile) == tile.right = tile.left \/ tile.bottom = tile.top

\* What Tesseract reads in a cell, as a sequence of characters.
OcrText(cell) ==
    CASE cell = "blank" -> <<" ", "\n">>
      [] cell = "dots"  -> <<" ", ".", "-", "\n">>
      [] cell = "wood"  -> <<"1", "0", " ", "(", "5", "0", ")", "\n", "W", "o", "o", "d", "\n">>
      [] cell = "stone" -> <<"2", " ", "(", ")", "\n", "S", "t", "o", "n", "e">>
      [] cell = "label" -> <<" ", "x", " ">>
      [] cell = "rule"  -> <<"_", "_", "\n", "\f">>
      [] cell = "page"  -> <<"\n", "\f">>

Whitespace == {" ", "\n", "\t", "\f"}
Alnum == {"0", "1", "2", "5", "W", "o", "d", "S", "t", "n", "e", "x"}

RECURSIVE LStrip(_)
LStrip(s) == IF s # <<>> /\ Head(s) \in Whitespace THEN LStrip(Tail(s)) ELSE s

RECURSIVE RStrip(_)
RStrip(s) == IF s # <<>> /\ s[Len(s)] \in Whitespace THEN RStrip(SubSeq(s, 1, Len(s) - 1)) ELSE s

Strip(s) == RStrip(LStrip(s))

\* convert("L") or pytesseract.image_to_string raises: Tesseract cannot take
\* an empty image, or fails on this one.
OcrRaises(tile) == ZeroSize(tile) \/ tile.cell = "unreadable"

\* Mutant of image_has_text: a failed OCR drops the tile.
HasTextFailClosed(tile) ==
    IF OcrRaises(tile)
    THEN FALSE
    ELSE LET text_stripped == Strip(OcrText(tile.cell))
         IN \E k \in 1..Len(text_stripped) : text_stripped[k] \in Alnum

\* Mutant of image_has_text: any text left after the strip counts.
HasTextNonEmpty(tile) ==
    IF OcrRaises(tile) THEN TRUE ELSE Strip(OcrText(tile.cell)) # <<>>

\* image_has_text: OCR on the grayscale tile; an exception keeps the tile.
image_has_text(tile) ==
    IF OcrRaises(tile)
    THEN TRUE
    ELSE LET text_stripped == Strip(OcrText(tile.cell))
         IN \E k \in 1..Len(text_stripped) : text_stripped[k] \in Alnum

\* Mutant of pre_screen_subimages: the kept tiles, last first.
RECURSIVE PreScreenReversed(_)
PreScreenReversed(tiles) ==
    IF tiles = <<>> THEN <<>>
    ELSE IF image_has_text(Head(tiles))
         THEN PreScreenReversed(Tail(tiles)) \o <<Head(tiles)>>
         ELSE PreScreenReversed(Tail(tiles))

\* pre_screen_subimages: the tiles with text, in order.
pre_screen_subimages(subimages) == SelectSeq(subimages, image_has_text)

Screened(name) == pre_screen_subimages(split_image_into_subimages(Image(name)))

----------------------------------------------------------------------------
\* The LLM call of one image.

\* The item names that occur, as characters.
WOOD == <<"W", "o", "o", "d">>
STONE == <<"S", "t", "o", "n", "e">>
NONE == <<"N", "O", "N", "E">>
ERROR == <<"E", "R", "R", "O", "R">>

ErrorItem == [item_name |-> Text(ERROR), required_count |-> None, available_count |-> None]

\* The JSON object a well-behaved model answers for a cell.
ItemOf(cell) ==
    CASE cell = "wood"  -> [item_name |-> Text(WOOD), required_count |-> Count(10), available_count |-> Count(50)]
      [] cell = "stone" -> [item_name |-> Text(STONE), required_count |-> Count(2), available_count |-> None]
      [] OTHER          -> [item_name |-> Text(NONE), required_count |-> None, available_count |-> None]

\* A parsed JSON value that is not an object (a list, a number, a string).
NotADict == [json |-> "array"]
IsDict(item) == "json" \notin DOMAIN item

\* How a request ends. "ok": status 200 and the JSON object of the cell;
\* "fail": requests.post, raise_for_status or json.loads raised (timeout,
\* connection error, HTTP error status, unparsable text); the others: status
\* 200 and JSON that parses but is not the object asked for.
Responses == {"ok", "fail", "null_name", "no_name", "not_object"}

\* json.loads(text) of a response that parses.
ParsedJson(cell, resp) ==
    CASE resp = "ok"         -> ItemOf(cell)
      [] resp = "null_name"  -> [item_name |-> None, required_count |-> None, available_count |-> None]
      [] resp = "no_name"    -> [required_count |-> None, available_count |-> None]
      [] resp = "not_object" -> NotADict

----------------------------------------------------------------------------
\* The CSV store.

CSV_HEADER == <<"timestamp", "item_name", "available_count", "required_count">>

\* ord() of the characters of item names.
Ord(ch) ==
    CASE ch = " " -> 32  [] ch = "E" -> 69  [] ch = "N" -> 78  [] ch = "O" -> 79
      [] ch = "R" -> 82  [] ch = "S" -> 83  [] ch = "W" -> 87  [] ch = "d" -> 100
      [] ch = "e" -> 101 [] ch = "n" -> 110 [] ch = "o" -> 111 [] ch = "t" -> 116

\* Python's < on str: by code point, a proper prefix first.
RECURSIVE StrLess(_, _)
StrLess(a, b) ==
    IF b = <<>> THEN FALSE
    ELSE IF a = <<>> THEN TRUE
    ELSE IF Head(a) # Head(b) THEN Ord(Head(a)) < Ord(Head(b))
    ELSE StrLess(Tail(a), Tail(b))

\* str() of a count.
Str(v) == IF v = None THEN "None" ELSE ToString(v[1])

\* str(item.get(key, "")): the key absent gives str("").
CountField(item, key) == IF key \in DOMAIN item THEN Str(item[key]) ELSE ""

EmptyFile == [exists |-> FALSE, header |-> <<>>, rows |-> <<>>]

\* ensure_csv_header: create the file with the header when it does not exist;
\* an existing file is left as it is.
ensure_csv_header(file) ==
    IF ~file.exists THEN [exists |-> TRUE, header |-> CSV_HEADER, rows |-> <<>>] ELSE file

\* Mutant of ReadRows: the first row of a name is the one kept.
RECURSIVE ReadRowsKeepFirst(_, _)
ReadRowsKeepFirst(rows, data) ==
    IF rows = <<>> THEN data
    ELSE LET row == Head(rows)
             item_name == Strip(row.item_name)
         IN IF item_name # <<>> /\ item_name \notin {NONE, ERROR} /\ item_name \notin DOMAIN data
            THEN ReadRowsKeepFirst(Tail(rows),
                                   [n \in DOMAIN data \cup {item_name} |->
                                       IF n = item_name THEN row ELSE data[n]])
            ELSE ReadRowsKeepFirst(Tail(rows), data)

\* read_csv_data: item_name -> row, a later row replacing an earlier one;
\* nothing when the header is not CSV_HEADER.
RECURSIVE ReadRows(_, _)
ReadRows(rows, data) ==
    IF rows = <<>> THEN data
    ELSE LET row == Head(rows)
             item_name == Strip(row.item_name)
         IN IF item_name # <<>> /\ item_name \notin {NONE, ERROR}
            THEN ReadRows(Tail(rows),
                          [n \in DOMAIN data \cup {item_name} |->
                              IF n = item_name THEN row ELSE data[n]])
            ELSE ReadRows(Tail(rows), data)

read_csv_data(file) ==
    IF ~file.exists THEN <<>>
    ELSE IF file.header # CSV_HEADER THEN <<>>
    ELSE ReadRows(file.rows, <<>>)

\* item.get("item_name", "").strip() raises AttributeError when the item is
\* not a dict or its item_name is null.
NameRaises(item) == ~IsDict(item) \/ ItemGet(item, "item_name", Text(<<>>)) = None

\* Mutant of MergeItems: no item is skipped.
RECURSIVE MergeItemsKeepSentinels(_, _, _)
MergeItemsKeepSentinels(items, data, timestamp) ==
    IF items = <<>> THEN data
    ELSE LET item == Head(items)
             item_name == Strip(ItemGet(item, "item_name", Text(<<>>))[1])
             new_row == [timestamp |-> timestamp,
                         item_name |-> item_name,
                         available_count |-> CountField(item, "available_count"),
                         required_count |-> CountField(item, "required_count")]
         IN MergeItemsKeepSentinels(Tail(items),
                                    [n \in DOMAIN data \cup {item_name} |->
                                        IF n = item_name THEN new_row ELSE data[n]],
                                    timestamp)

\* Mutant of MergeItems: the loop ends at the first "ERROR" item.
RECURSIVE MergeItemsStopAtError(_, _, _)
MergeItemsStopAtError(items, data, timestamp) ==
    IF items = <<>> THEN data
    ELSE LET item == Head(items)
             item_name == Strip(ItemGet(item, "item_name", Text(<<>>))[1])
         IN IF item_name = ERROR THEN data
            ELSE IF item_name = <<>> \/ item_name = NONE
            THEN MergeItemsStopAtError(Tail(items), data, timestamp)
            ELSE LET new_row == [timestamp |-> timestamp,
                                 item_name |-> item_name,
                                 available_count |-> CountField(item, "available_count"),
                                 required_count |-> CountField(item, "required_count")]
                 IN MergeItemsStopAtError(Tail(items),
                                          [n \in DOMAIN data \cup {item_name} |->
                                              IF n = item_name THEN new_row ELSE data[n]],
                                          timestamp)

\* Mutant of MergeItems: a name that has a row keeps it.
RECURSIVE MergeItemsKeepFirst(_, _, _)
MergeItemsKeepFirst(items, data, timestamp) ==
    IF items = <<>> THEN data
    ELSE LET item == Head(items)
             item_name == Strip(ItemGet(item, "item_name", Text(<<>>))[1])
         IN IF item_name = <<>> \/ item_name \in {NONE, ERROR} \/ item_name \in DOMAIN data
            THEN MergeItemsKeepFirst(Tail(items), data, timestamp)
            ELSE LET new_row == [timestamp |-> timestamp,
                                 item_name |-> item_name,
                                 available_count |-> CountField(item, "available_count"),
                                 required_count |-> CountField(item, "required_count")]
                 IN MergeItemsKeepFirst(Tail(items),
                                        [n \in DOMAIN data \cup {item_name} |->
                                            IF n = item_name THEN new_row ELSE data[n]],
                                        timestamp)

\* The loop over the items of update_inventory_csv (no item raising).
RECURSIVE MergeItems(_, _, _)
MergeItems(items, data, timestamp) ==
    IF items = <<>> THEN data
    ELSE LET item == Head(items)
             item_name == Strip(ItemGet(item, "item_name", Text(<<>>))[1])
         IN IF item_name = <<>> \/ item_name \in {NONE, ERROR}
            THEN MergeItems(Tail(items), data, timestamp)
            ELSE LET new_row == [timestamp |-> timestamp,
                                 item_name |-> item_name,
                                 available_count |-> CountField(item, "available_count"),
                                 required_count |-> CountField(item, "required_count")]
                 IN MergeItems(Tail(items),
                               [n \in DOMAIN data \cup {item_name} |->
                                   IF n = item_name THEN new_row ELSE data[n]],
                               timestamp)

\* Mutant of SortedKeys: the keys in descending order.
RECURSIVE KeysDescending(_)
KeysDescending(keys) ==
    IF keys = {} THEN <<>>
    ELSE LET first == CHOOSE k \in keys : \A o \in keys \ {k} : StrLess(o, k)
         IN <<first>> \o KeysDescending(keys \ {first})

\* sorted(existing_data.keys())
RECURSIVE SortedKeys(_)
SortedKeys(keys) ==
    IF keys = {} THEN <<>>
    ELSE LET first == CHOOSE k \in keys : \A o \in keys \ {k} : StrLess(k, o)
         IN <<first>> \o SortedKeys(keys \ {first})

\* The faults of the final write: open(path, "w") raising (the file is as it
\* was), or a write raising after the file was truncated and `flushed` of its
\* lines reached the disk.
WriteFaults == {"none", "open", "write"}

\* The faults of loading the store. "create": the file does not exist and
\* open(path, "w") of ensure_csv_header raises OSError, outside any try.
\* "read": the file exists and open(path, "r") raises OSError, or the csv
\* reader raises csv.Error; ensure_csv_header and read_csv_data catch both.
\* "decode": the file exists and holds bytes that are not UTF-8; readline()
\* raises UnicodeDecodeError, which neither except clause names.
LoadFaults == {"create", "read", "decode"}

\* The load faults a file can show.
LoadFaultsOf(file) == IF file.exists THEN {"read", "decode"} ELSE {"create"}

\* existing_data of update_inventory_csv: read_csv_data(path) after
\* ensure_csv_header(path); {} when reading raised OSError or csv.Error.
LoadedData(file, fault) ==
    IF fault = "read" THEN <<>> ELSE read_csv_data(ensure_csv_header(file))

\* Mutant of MergedRows: the rows of the items are appended to the rows of
\* the file.
MergedRowsAppended(items, file, timestamp, fault) ==
    LET new_data == MergeItems(items, <<>>, timestamp)
        keys == SortedKeys(DOMAIN new_data)
    IN ensure_csv_header(file).rows \o [i \in 1..Len(keys) |-> new_data[keys[i]]]

\* The rows update_inventory_csv writes when no item raises: the rows read,
\* merged with the items, sorted by key.
MergedRows(items, file, timestamp, fault) ==
    LET existing_data == MergeItems(items, LoadedData(file, fault), timestamp)
        keys == SortedKeys(DOMAIN existing_data)
    IN [i \in 1..Len(keys) |-> existing_data[keys[i]]]

\* No line "CSV updated: ..." was logged.
NoSummary == [updated |-> 0, added |-> 0, total |-> 0, logged |-> FALSE]

\* Mutant of Counts: a name counts as added whenever the file read had no
\* row of it.
RECURSIVE CountsAgainstFile(_, _, _, _)
CountsAgainstFile(items, names, updated, added) ==
    IF items = <<>> THEN [updated |-> updated, added |-> added, names |-> names]
    ELSE LET item_name == Strip(ItemGet(Head(items), "item_name", Text(<<>>))[1])
         IN IF item_name = <<>> \/ item_name \in {NONE, ERROR}
            THEN CountsAgainstFile(Tail(items), names, updated, added)
            ELSE IF item_name \in names
            THEN CountsAgainstFile(Tail(items), names, updated + 1, added)
            ELSE CountsAgainstFile(Tail(items), names, updated, added + 1)

\* updated_count and added_count of the loop over the items: a name that is
\* a key of existing_data counts as updated, another as added, and becomes a
\* key.
RECURSIVE Counts(_, _, _, _)
Counts(items, names, updated, added) ==
    IF items = <<>> THEN [updated |-> updated, added |-> added, names |-> names]
    ELSE LET item_name == Strip(ItemGet(Head(items), "item_name", Text(<<>>))[1])
         IN IF item_name = <<>> \/ item_name \in {NONE, ERROR}
            THEN Counts(Tail(items), names, updated, added)
            ELSE IF item_name \in names
            THEN Counts(Tail(items), names, updated + 1, added)
            ELSE Counts(Tail(items), names \cup {item_name}, updated, added + 1)

\* "CSV updated: {updated_count} updated, {added_count} added,
\* {len(existing_data)} total items", logged after the write.
Summary(items, existing_data) ==
    LET counts == Counts(items, DOMAIN existing_data, 0, 0)
    IN [updated |-> counts.updated, added |-> counts.added,
        total |-> Cardinality(counts.names), logged |-> TRUE]

\* Mutant of EmptyBatch: ensure_csv_header is called before the test.
EmptyBatchEnsured(file) ==
    [file |-> ensure_csv_header(file), raised |-> FALSE, exc |-> "none", summary |-> NoSummary]

\* if not items: return
EmptyBatch(file) ==
    [file |-> file, raised |-> FALSE, exc |-> "none", summary |-> NoSummary]

\* update_inventory_csv: the file after the call, whether it raised, what,
\* and the counts it logged.
update_inventory_csv(items, file, timestamp, fault, flushed) ==
    IF items = <<>>
    THEN EmptyBatch(file)
    ELSE IF fault = "create" /\ ~file.exists
    THEN [file |-> file, raised |-> TRUE, exc |-> "OSError", summary |-> NoSummary]
    ELSE IF fault = "decode" /\ file.exists
    THEN [file |-> file, raised |-> TRUE, exc |-> "UnicodeDecodeError", summary |-> NoSummary]
    ELSE LET ensured == ensure_csv_header(file)
         IN IF \E i \in 1..Len(items) : NameRaises(items[i])
            THEN [file |-> ensured, raised |-> TRUE, exc |-> "AttributeError", summary |-> NoSummary]
            ELSE LET rows == MergedRows(items, file, timestamp, fault)
                 IN CASE fault \in {"none"} \cup LoadFaults ->
                           [file |-> [exists |-> TRUE, header |-> CSV_HEADER, rows |-> rows],
                            raised |-> FALSE, exc |-> "none",
                            summary |-> Summary(items, LoadedData(file, fault))]
                      [] fault = "open" ->
                           [file |-> ensured, raised |-> TRUE, exc |-> "OSError", summary |-> NoSummary]
                      [] fault = "write" ->
                           [file |-> IF flushed = 0
                                     THEN [exists |-> TRUE, header |-> <<>>, rows |-> <<>>]
                                     ELSE [exists |-> TRUE, header |-> CSV_HEADER,
                                           rows |-> SubSeq(rows, 1, flushed - 1)],
                            raised |-> TRUE, exc |-> "OSError", summary |-> NoSummary]

----------------------------------------------------------------------------
\* QueueProcessor and the threads that use it.

VARIABLES
    running,        \* QueueProcessor.running
    worker_thread,  \* QueueProcessor.worker_thread: the thread start() created last
    task_counter,   \* QueueProcessor.task_counter
    task_queue,     \* QueueProcessor.task_queue, head first
    csv_lock,       \* QueueProcessor.csv_lock: the thread holding it, or NoThread
    csv,            \* the file at CSV_PATH
    clock,          \* the latest reading of datetime.now()
    last_upsert,    \* history: the latest call of update_inventory_csv
    endpoint,       \* how requests to OLLAMA_URL can end (fixed during a run)
    wpc,            \* per worker thread: where it is in _worker_loop / _process_task
    wtask,          \* per worker thread: the task it dequeued
    items,          \* per worker thread: `results` of call_llm_api so far
    requests,       \* history, per worker thread: the requests of its task so far
    cpc,            \* the controlling (main) thread: idle, or joining in stop()
    last_call,      \* history: what the controlling thread's last start() or stop() did
    ppc,            \* per caller of enqueue_screenshot: where it is in it
    pimg,           \* per caller: the image argument
    ptmp,           \* per caller: the value of task_counter it loaded for += 1
    pid,            \* per caller: task_id
    puts,           \* history: the task_id of every task put, in put order
    rets,           \* history: the task_id every enqueue_screenshot returned, in return order
    started,        \* history: the tasks whose _process_task began, in that order
    out,            \* history, per task: its outcome lines, in print order
    stopMid,        \* history, per worker thread: stop() was called while it was inside _process_task
    shot,           \* the image take_screenshot returned last
    subimages,      \* what split_image_into_subimages returned for it
    screened,       \* what pre_screen_subimages returned for these
    ipc             \* how far the image handler got with the shot

vars == <<running, worker_thread, task_counter, task_queue, csv_lock, csv, clock,
          last_upsert, endpoint, wpc, wtask, items, requests, cpc, last_call, ppc, pimg, ptmp, pid,
          puts, rets, started, out, stopMid, shot, subimages, screened, ipc>>

procVars == <<running, worker_thread, task_counter, task_queue, csv_lock>>
workerVars == <<wpc, wtask, items, requests>>
ctlVars == <<cpc, last_call>>
callerVars == <<ppc, pimg, ptmp, pid>>
\* What lies outside the process: the file, the clock, the endpoint.
storeVars == <<csv, clock, last_upsert, endpoint>>
\* The image handler called on its own.
imageVars == <<shot, subimages, screened, ipc>>

\* ScreenshotTask: image and task_id (its timestamp is never read); seq is the
\* task's position in put order.
NoTask == [image |-> "none", task_id |-> 0, seq |-> 0]
ScreenshotTask(image, task_id, seq) == [image |-> image, task_id |-> task_id, seq |-> seq]

\* No screenshot taken yet.
NoImage == [width |-> 0, height |-> 0, cells |-> <<>>]

\* No call of update_inventory_csv yet.
NoUpsert ==
    [items |-> <<>>, before |-> EmptyFile, raised |-> FALSE, exc |-> "none", fault |-> "none",
     summary |-> NoSummary]

\* QueueProcessor.__init__, with the file and the endpoint as they are found.
Constructed(file, kinds) ==
    /\ running = FALSE
    /\ worker_thread = NoThread
    /\ task_counter = 0
    /\ task_queue = <<>>
    /\ csv_lock = NoThread
    /\ csv = file
    /\ clock = 0
    /\ last_upsert = NoUpsert
    /\ endpoint = kinds
    /\ wpc = [t \in Threads |-> "unborn"]
    /\ wtask = [t \in Threads |-> NoTask]
    /\ items = [t \in Threads |-> <<>>]
    /\ requests = [t \in Threads |-> <<>>]
    /\ cpc = "idle"
    /\ last_call = "none"
    /\ ppc = [p \in Callers |-> "idle"]
    /\ pimg = [p \in Callers |-> "none"]
    /\ ptmp = [p \in Callers |-> 0]
    /\ pid = [p \in Callers |-> 0]
    /\ puts = <<>>
    /\ rets = <<>>
    /\ started = <<>>
    /\ out = [k \in 1..MaxTasks |-> <<>>]
    /\ stopMid = [t \in Threads |-> FALSE]
    /\ shot = NoImage
    /\ subimages = <<>>
    /\ screened = <<>>
    /\ ipc = "none"

\* QueueProcessor.__init__; main.start_app has called ensure_csv_header before.
Init == Constructed(ensure_csv_header(EmptyFile), {"ok", "fail"})

Alive(t) == wpc[t] \notin {"unborn", "exited"}        \* Thread.is_alive()
InProcessTask(t) == wpc[t] \in {"llm", "lock", "store"}   \* inside _process_task

----------------------------------------------------------------------------
\* enqueue_screenshot, statement by statement.

\* self.task_counter += 1: the load of the attribute.
EnqLoad(p, image) ==
    /\ ppc[p] = "idle"
    /\ Len(puts) + Cardinality({q \in Callers : ppc[q] # "idle"}) < MaxTasks
    /\ ppc' = [ppc EXCEPT ![p] = "inc"]
    /\ pimg' = [pimg EXCEPT ![p] = image]
    /\ ptmp' = [ptmp EXCEPT ![p] = task_counter]
    /\ UNCHANGED <<pid, procVars, workerVars, ctlVars, storeVars, imageVars, puts, rets, started, out, stopMid>>

\* self.task_counter += 1: the store of the sum.
EnqStore(p) ==
    /\ ppc[p] = "inc"
    /\ task_counter' = ptmp[p] + 1
    /\ ppc' = [ppc EXCEPT ![p] = "read"]
    /\ UNCHANGED <<running, worker_thread, task_queue, csv_lock, pimg, ptmp, pid,
                   workerVars, ctlVars, storeVars, imageVars, puts, rets, started, out, stopMid>>

\* Mutant of EnqRead: task_id taken from the value loaded before the increment.
EnqReadStale(p) ==
    /\ ppc[p] = "read"
    /\ pid' = [pid EXCEPT ![p] = ptmp[p]]
    /\ ppc' = [ppc EXCEPT ![p] = "put"]
    /\ UNCHANGED <<pimg, ptmp, procVars, workerVars, ctlVars, storeVars, imageVars, puts, rets, started, out, stopMid>>

\* task_id = self.task_counter
EnqRead(p) ==
    /\ ppc[p] = "read"
    /\ pid' = [pid EXCEPT ![p] = task_counter]
    /\ ppc' = [ppc EXCEPT ![p] = "put"]
    /\ UNCHANGED <<pimg, ptmp, procVars, workerVars, ctlVars, storeVars, imageVars, puts, rets, started, out, stopMid>>

\* self.task_queue.put(task) on the unbounded queue, and return task_id.
EnqPut(p) ==
    /\ ppc[p] = "put"
    /\ task_queue' = Append(task_queue, ScreenshotTask(pimg[p], pid[p], Len(puts) + 1))
    /\ puts' = Append(puts, pid[p])
    /\ rets' = Append(rets, pid[p])
    /\ ppc' = [ppc EXCEPT ![p] = "idle"]
    /\ UNCHANGED <<running, worker_thread, task_counter, csv_lock, pimg, ptmp, pid,
                   workerVars, ctlVars, storeVars, imageVars, started, out, stopMid>>

enqueue_screenshot(p) ==
    \/ \E image \in QueueImages : EnqLoad(p, image)
    \/ EnqStore(p)
    \/ EnqRead(p)
    \/ EnqPut(p)

----------------------------------------------------------------------------
\* start() and stop(), called by the controlling thread.

\* if self.running: return
StartNoop ==
    /\ cpc = "idle"
    /\ running
    /\ last_call' = "start_noop"
    /\ UNCHANGED <<cpc, procVars, workerVars, callerVars, storeVars, imageVars, puts, rets, started, out, stopMid>>

\* self.running = True; self.worker_thread = Thread(target=self._worker_loop); start it.
SpawnWorker ==
    /\ cpc = "idle"
    /\ \E t \in Threads :
          /\ wpc[t] = "unborn"
          /\ \A u \in Threads : u < t => wpc[u] # "unborn"
          /\ worker_thread' = t
          /\ wpc' = [wpc EXCEPT ![t] = "check"]
    /\ running' = TRUE
    /\ last_call' = "start_spawned"
    /\ UNCHANGED <<cpc, task_counter, task_queue, csv_lock, wtask, items, requests,
                   callerVars, storeVars, imageVars, puts, rets, started, out, stopMid>>

StartSpawn == ~running /\ SpawnWorker

\* Mutant of start: no test of self.running.
StartUnguarded == SpawnWorker

start == StartNoop \/ StartSpawn

\* self.running = False; then join the worker thread, if there is one.
StopSignal ==
    /\ cpc = "idle"
    /\ running' = FALSE
    /\ stopMid' = [t \in Threads |-> stopMid[t] \/ InProcessTask(t)]
    /\ IF worker_thread # NoThread
       THEN cpc' = "join" /\ UNCHANGED last_call
       ELSE cpc' = "idle" /\ last_call' = "stop_no_thread"
    /\ UNCHANGED <<worker_thread, task_counter, task_queue, csv_lock,
                   workerVars, callerVars, storeVars, imageVars, puts, rets, started, out>>

\* join(timeout=30) returns because the thread has ended: "Worker thread stopped".
StopJoined ==
    /\ cpc = "join"
    /\ ~Alive(worker_thread)
    /\ last_call' = "stop_joined"
    /\ cpc' = "idle"
    /\ UNCHANGED <<procVars, workerVars, callerVars, storeVars, imageVars, puts, rets, started, out, stopMid>>

\* join(timeout=30) returns because the 30 seconds are over and the thread
\* is_alive(): "Warning: Worker thread did not stop gracefully".
StopTimeout ==
    /\ cpc = "join"
    /\ Alive(worker_thread)
    /\ last_call' = "stop_warning"
    /\ cpc' = "idle"
    /\ UNCHANGED <<procVars, workerVars, callerVars, storeVars, imageVars, puts, rets, started, out, stopMid>>

\* Mutant of JoinReturns: join() without a timeout.
JoinWithoutTimeout == StopJoined

\* self.worker_thread.join(timeout=30) and the report that follows it.
JoinReturns == StopJoined \/ StopTimeout

stop == StopSignal \/ JoinReturns

----------------------------------------------------------------------------
\* _worker_loop and _process_task, run by worker thread t.

\* The outcome line of the task thread t holds; _process_task returns,
\* self.task_queue.task_done(), and back to the loop test.
Outcome(t, kind) ==
    /\ out' = [out EXCEPT ![wtask[t].seq] = Append(@, kind)]
    /\ wtask' = [wtask EXCEPT ![t] = NoTask]
    /\ items' = [items EXCEPT ![t] = <<>>]
    /\ requests' = [requests EXCEPT ![t] = <<>>]
    /\ wpc' = [wpc EXCEPT ![t] = "check"]

\* while self.running:
LoopCheck(t) ==
    /\ wpc[t] = "check"
    /\ wpc' = [wpc EXCEPT ![t] = IF running THEN "get" ELSE "exited"]
    /\ UNCHANGED <<wtask, items, requests, procVars, ctlVars, callerVars, storeVars, imageVars,
                   puts, rets, started, out, stopMid>>

\* Mutant of Get: the task stays in the queue.
GetPeek(t) ==
    /\ wpc[t] = "get"
    /\ task_queue # <<>>
    /\ wtask' = [wtask EXCEPT ![t] = Head(task_queue)]
    /\ wpc' = [wpc EXCEPT ![t] = "run"]
    /\ UNCHANGED <<procVars, items, requests, ctlVars, callerVars, storeVars, imageVars,
                   puts, rets, started, out, stopMid>>

\* task = self.task_queue.get(timeout=1.0) returning a task.
Get(t) ==
    /\ wpc[t] = "get"
    /\ task_queue # <<>>
    /\ wtask' = [wtask EXCEPT ![t] = Head(task_queue)]
    /\ task_queue' = Tail(task_queue)
    /\ wpc' = [wpc EXCEPT ![t] = "run"]
    /\ UNCHANGED <<running, worker_thread, task_counter, csv_lock, items, requests,
                   ctlVars, callerVars, storeVars, imageVars, puts, rets, started, out, stopMid>>

\* Mutant of GetEmpty: queue.Empty ends the thread.
GetEmptyExits(t) ==
    /\ wpc[t] = "get"
    /\ task_queue = <<>>
    /\ wpc' = [wpc EXCEPT ![t] = "exited"]
    /\ UNCHANGED <<wtask, items, requests, procVars, ctlVars, callerVars, storeVars, imageVars,
                   puts, rets, started, out, stopMid>>

\* get(timeout=1.0) raising queue.Empty: continue.
GetEmpty(t) ==
    /\ wpc[t] = "get"
    /\ task_queue = <<>>
    /\ wpc' = [wpc EXCEPT ![t] = "check"]
    /\ UNCHANGED <<wtask, items, requests, procVars, ctlVars, callerVars, storeVars, imageVars,
                   puts, rets, started, out, stopMid>>

\* Mutant of ProcessBegin: a task without text returns without a line.
ProcessBeginSilent(t) ==
    /\ wpc[t] = "run"
    /\ started' = Append(started, wtask[t].seq)
    /\ IF Screened(wtask[t].image) = <<>>
       THEN /\ wtask' = [wtask EXCEPT ![t] = NoTask]
            /\ wpc' = [wpc EXCEPT ![t] = "check"]
            /\ UNCHANGED <<items, requests, out>>
       ELSE /\ wpc' = [wpc EXCEPT ![t] = "llm"]
            /\ UNCHANGED <<wtask, items, requests, out>>
    /\ UNCHANGED <<procVars, ctlVars, callerVars, storeVars, imageVars, puts, rets, stopMid>>

\* Mutant of ProcessBegin: no test of the list the pre-screen returned.
ProcessBeginNoSkip(t) ==
    /\ wpc[t] = "run"
    /\ started' = Append(started, wtask[t].seq)
    /\ wpc' = [wpc EXCEPT ![t] = "llm"]
    /\ UNCHANGED <<wtask, items, requests, out>>
    /\ UNCHANGED <<procVars, ctlVars, callerVars, storeVars, imageVars, puts, rets, stopMid>>

\* _process_task begins: split_image_into_subimages and pre_screen_subimages;
\* "No text detected in any subimage; skipping." and return when none is left.
ProcessBegin(t) ==
    /\ wpc[t] = "run"
    /\ started' = Append(started, wtask[t].seq)
    /\ IF Screened(wtask[t].image) = <<>>
       THEN Outcome(t, "no_text")
       ELSE /\ wpc' = [wpc EXCEPT ![t] = "llm"]
            /\ UNCHANGED <<wtask, items, requests, out>>
    /\ UNCHANGED <<procVars, ctlVars, callerVars, storeVars, imageVars, puts, rets, stopMid>>

\* Mutant of ProcessError: the exception ends the worker thread.
ProcessErrorEndsThread(t) ==
    /\ out' = [out EXCEPT ![wtask[t].seq] = Append(@, "error")]
    /\ wtask' = [wtask EXCEPT ![t] = NoTask]
    /\ items' = [items EXCEPT ![t] = <<>>]
    /\ requests' = [requests EXCEPT ![t] = <<>>]
    /\ wpc' = [wpc EXCEPT ![t] = "exited"]

\* except Exception in _process_task: "Error during processing"; the worker
\* loop goes on.
ProcessError(t) == Outcome(t, "error")

\* Mutant of Appended: a failed request is recorded as "nothing there".
AppendedNoneOnFailure(cell, resp) == IF resp = "fail" THEN ItemOf("blank") ELSE ParsedJson(cell, resp)

\* The item call_llm_api appends for a request that ended as resp: the parsed
\* JSON, or the ERROR item when anything in the try raised.
Appended(cell, resp) == IF resp = "fail" THEN ErrorItem ELSE ParsedJson(cell, resp)

\* Mutant of Llm: the images are taken from the end of the list.
LlmLastFirst(t) ==
    /\ wpc[t] = "llm"
    /\ LET screened_subimages == Screened(wtask[t].image)
           img == screened_subimages[Len(screened_subimages) - Len(items[t])]
       IN IF ZeroSize(img)
          THEN ProcessError(t)
          ELSE /\ \E resp \in endpoint :
                     /\ items' = [items EXCEPT ![t] = Append(@, Appended(img.cell, resp))]
                     /\ requests' = [requests EXCEPT ![t] = Append(@, [img |-> img, resp |-> resp])]
               /\ wpc' = [wpc EXCEPT ![t] =
                            IF Len(items[t]) + 1 = Len(screened_subimages) THEN "lock" ELSE "llm"]
               /\ UNCHANGED <<wtask, out>>
    /\ UNCHANGED <<procVars, ctlVars, callerVars, storeVars, imageVars, puts, rets, started, stopMid>>

\* call_llm_api, one image per step: pil_to_base64 (which raises on an empty
\* image, outside the try), then the request and the append of its result.
Llm(t) ==
    /\ wpc[t] = "llm"
    /\ LET screened_subimages == Screened(wtask[t].image)
           img == screened_subimages[Len(items[t]) + 1]
       IN IF ZeroSize(img)
          THEN ProcessError(t)
          ELSE /\ \E resp \in endpoint :
                     /\ items' = [items EXCEPT ![t] = Append(@, Appended(img.cell, resp))]
                     /\ requests' = [requests EXCEPT ![t] = Append(@, [img |-> img, resp |-> resp])]
               /\ wpc' = [wpc EXCEPT ![t] =
                            IF Len(items[t]) + 1 = Len(screened_subimages) THEN "lock" ELSE "llm"]
               /\ UNCHANGED <<wtask, out>>
    /\ UNCHANGED <<procVars, ctlVars, callerVars, storeVars, imageVars, puts, rets, started, stopMid>>

\* Mutant of Lock: update_inventory_csv is entered without the lock.
LockUnguarded(t) ==
    /\ wpc[t] = "lock"
    /\ IF \E i \in 1..Len(items[t]) : ~IsDict(items[t][i])
       THEN ProcessError(t) /\ UNCHANGED csv_lock
       ELSE /\ csv_lock' = t
            /\ wpc' = [wpc EXCEPT ![t] = "store"]
            /\ UNCHANGED <<wtask, items, requests, out>>
    /\ UNCHANGED <<running, worker_thread, task_counter, task_queue,
                   ctlVars, callerVars, storeVars, imageVars, puts, rets, started, stopMid>>

\* After call_llm_api: the loop that logs each item (item.get raises on an item
\* that is not a dict), then `with self.csv_lock:` acquires the lock.
Lock(t) ==
    /\ wpc[t] = "lock"
    /\ IF \E i \in 1..Len(items[t]) : ~IsDict(items[t][i])
       THEN ProcessError(t) /\ UNCHANGED csv_lock
       ELSE /\ csv_lock = NoThread
            /\ csv_lock' = t
            /\ wpc' = [wpc EXCEPT ![t] = "store"]
            /\ UNCHANGED <<wtask, items, requests, out>>
    /\ UNCHANGED <<running, worker_thread, task_counter, task_queue,
                   ctlVars, callerVars, storeVars, imageVars, puts, rets, started, stopMid>>

\* update_inventory_csv(items) under the lock, the release of the lock, and
\* "Updated CSV with n items" or the exception handler.
Store(t) ==
    /\ wpc[t] = "store"
    /\ \E timestamp \in {clock, clock + 1}, fault \in WriteFaults :
         \E flushed \in IF fault = "write"
                        THEN 0..Len(update_inventory_csv(items[t], csv, timestamp, "none", 0).file.rows)
                        ELSE {0} :
            LET result == update_inventory_csv(items[t], csv, timestamp, fault, flushed)
            IN /\ csv' = result.file
               /\ clock' = timestamp
               /\ last_upsert' = [items |-> items[t], before |-> csv,
                                  raised |-> result.raised, exc |-> result.exc,
                                  fault |-> fault, summary |-> result.summary]
               /\ IF result.raised THEN ProcessError(t) ELSE Outcome(t, "updated")
    /\ csv_lock' = NoThread
    /\ UNCHANGED <<running, worker_thread, task_counter, task_queue, endpoint, imageVars,
                   ctlVars, callerVars, puts, rets, started, stopMid>>

\* Mutant of _process_task: the steps test self.running and give the task up
\* once stop() was called.
ProcessTaskCancellable(t) ==
    \/ running /\ (ProcessBegin(t) \/ Llm(t) \/ Lock(t) \/ Store(t))
    \/ /\ ~running
       /\ wpc[t] \in {"run", "llm", "lock", "store"}
       /\ wpc' = [wpc EXCEPT ![t] = "check"]
       /\ wtask' = [wtask EXCEPT ![t] = NoTask]
       /\ items' = [items EXCEPT ![t] = <<>>]
       /\ requests' = [requests EXCEPT ![t] = <<>>]
       /\ csv_lock' = IF csv_lock = t THEN NoThread ELSE csv_lock
       /\ UNCHANGED <<running, worker_thread, task_counter, task_queue,
                      ctlVars, callerVars, storeVars, imageVars, puts, rets, started, out, stopMid>>

_process_task(t) == ProcessBegin(t) \/ Llm(t) \/ Lock(t) \/ Store(t)

_worker_loop(t) == LoopCheck(t) \/ Get(t) \/ GetEmpty(t) \/ _process_task(t)

----------------------------------------------------------------------------
\* The program: one hotkey thread enqueues (main.handle_hotkey), the main
\* thread starts and stops, the worker threads run.
Next ==
    \/ \E p \in HotkeyThreads : enqueue_screenshot(p)
    \/ start
    \/ stop
    \/ \E t \in Threads : _worker_loop(t)

Spec == Init /\ [][Next]_vars

\* A started processor with several threads calling enqueue_screenshot
\* concurrently.
NextConcurrent ==
    \/ \E p \in ConcurrentCallers : enqueue_screenshot(p)
    \/ start
    \/ \E t \in Threads : _worker_loop(t)

SpecConcurrent == Init /\ [][NextConcurrent]_vars

\* A processor that is never stopped: the hotkey thread enqueues, the main
\* thread starts, and the worker thread, once started, is scheduled again
\* and again; every call it makes returns.
NextLive ==
    \/ \E p \in HotkeyThreads : enqueue_screenshot(p)
    \/ start
    \/ \E t \in Threads : _worker_loop(t)

SpecLive == Init /\ [][NextLive]_vars /\ WF_vars(\E t \in Threads : _worker_loop(t))

----------------------------------------------------------------------------
\* update_inventory_csv called directly, batch after batch, on a store that
\* only this program writes.

WoodLater == [item_name |-> Text(WOOD), required_count |-> Count(7), available_count |-> Count(50)]
PaddedWood == [item_name |-> Text(<<" ">> \o WOOD \o <<" ">>), required_count |-> Count(3)]
EmptyName == [item_name |-> Text(<<>>), required_count |-> Count(1), available_count |-> Count(1)]
BlankName == [item_name |-> Text(<<" ", " ">>), required_count |-> Count(1), available_count |-> Count(1)]

Batches ==
    { <<>>,
      <<ItemOf("wood")>>,
      <<WoodLater>>,
      <<ItemOf("stone")>>,
      <<ItemOf("wood"), ItemOf("stone"), PaddedWood>>,
      <<ItemOf("blank"), ErrorItem, EmptyName, BlankName, ParsedJson("blank", "no_name")>>,
      <<ItemOf("stone"), ErrorItem, ItemOf("blank"), EmptyName>>,
      <<ItemOf("wood"), ParsedJson("stone", "null_name")>> }

\* One call update_inventory_csv(batch).
CallUpdateInventoryCsv(batch) ==
    /\ \E timestamp \in {clock, clock + 1}, fault \in WriteFaults \cup LoadFaultsOf(csv) :
         /\ timestamp <= MaxClock
         /\ \E flushed \in IF fault = "write"
                           THEN 0..Len(update_inventory_csv(batch, csv, timestamp, "none", 0).file.rows)
                           ELSE {0} :
               LET result == update_inventory_csv(batch, csv, timestamp, fault, flushed)
               IN /\ csv' = result.file
                  /\ clock' = IF batch = <<>> THEN clock ELSE timestamp
                  /\ last_upsert' = [items |-> batch, before |-> csv,
                                     raised |-> result.raised, exc |-> result.exc,
                                     fault |-> fault, summary |-> result.summary]
    /\ UNCHANGED <<endpoint, imageVars, procVars, workerVars, ctlVars, callerVars,
                   puts, rets, started, out, stopMid>>

\* The store is absent, or holds the header ensure_csv_header wrote.
InitStore ==
    \E file \in {EmptyFile, ensure_csv_header(EmptyFile)} : Constructed(file, {"ok", "fail"})

NextStore == \E batch \in Batches : CallUpdateInventoryCsv(batch)

SpecStore == InitStore /\ [][NextStore]_vars

\* The same calls on a file that exists with another header: the columns of
\* an older layout, or other titles, and rows of the canonical shape.
ForeignHeaders ==
    { <<"timestamp", "item_name", "required_count", "available_count">>,
      <<"time", "item", "available", "required">> }

ExistingRows ==
    << [timestamp |-> 0, item_name |-> WOOD, available_count |-> "5", required_count |-> "9"],
       [timestamp |-> 0, item_name |-> STONE, available_count |-> "4", required_count |-> "4"] >>

InitStoreExisting ==
    \E header \in ForeignHeaders :
        Constructed([exists |-> TRUE, header |-> header, rows |-> ExistingRows], {"ok", "fail"})

SpecStoreExisting == InitStoreExisting /\ [][NextStore]_vars

\* The same calls on a file with the canonical header in which names have
\* several rows, as an earlier version or an editor may have left it.
DuplicateRows ==
    { << [timestamp |-> 0, item_name |-> WOOD, available_count |-> "5", required_count |-> "9"],
         [timestamp |-> 0, item_name |-> STONE, available_count |-> "4", required_count |-> "4"],
         [timestamp |-> 0, item_name |-> WOOD, available_count |-> "1", required_count |-> "2"] >>,
      << [timestamp |-> 0, item_name |-> STONE, available_count |-> "4", required_count |-> "4"],
         [timestamp |-> 0, item_name |-> STONE, available_count |-> "6", required_count |-> "8"],
         [timestamp |-> 0, item_name |-> STONE, available_count |-> "", required_count |-> "3"] >> }

InitStoreDuplicates ==
    \E rows \in DuplicateRows :
        Constructed([exists |-> TRUE, header |-> CSV_HEADER, rows |-> rows], {"ok", "fail"})

SpecStoreDuplicates == InitStoreDuplicates /\ [][NextStore]_vars

----------------------------------------------------------------------------
\* One task through the pipeline: a started processor whose queue holds one
\* screenshot, an endpoint that can answer in every way, a store that is new
\* or holds a stale Wood row.

PipelineImages == {"pair", "scene", "tiny"}

StaleStore ==
    [exists |-> TRUE, header |-> CSV_HEADER,
     rows |-> << [timestamp |-> 0, item_name |-> WOOD, available_count |-> "1", required_count |-> "1"] >>]

InitPipeline ==
    \E image \in PipelineImages, file \in {ensure_csv_header(EmptyFile), StaleStore} :
        /\ running = TRUE
        /\ worker_thread = 1
        /\ task_counter = 1
        /\ task_queue = <<ScreenshotTask(image, 1, 1)>>
        /\ csv_lock = NoThread
        /\ csv = file
        /\ clock = 0
        /\ last_upsert = NoUpsert
        /\ endpoint = Responses
        /\ wpc = [t \in Threads |-> IF t = 1 THEN "check" ELSE "unborn"]
        /\ wtask = [t \in Threads |-> NoTask]
        /\ items = [t \in Threads |-> <<>>]
        /\ requests = [t \in Threads |-> <<>>]
        /\ cpc = "idle"
        /\ last_call = "start_spawned"
        /\ ppc = [p \in Callers |-> "idle"]
        /\ pimg = [p \in Callers |-> "none"]
        /\ ptmp = [p \in Callers |-> 0]
        /\ pid = [p \in Callers |-> 0]
        /\ puts = <<1>>
        /\ rets = <<1>>
        /\ started = <<>>
        /\ out = [k \in 1..MaxTasks |-> <<>>]
        /\ stopMid = [t \in Threads |-> FALSE]
        /\ shot = NoImage
        /\ subimages = <<>>
        /\ screened = <<>>
        /\ ipc = "none"

NextPipeline == \E t \in Threads : _worker_loop(t)

SpecPipeline == InitPipeline /\ [][NextPipeline]_vars

----------------------------------------------------------------------------
\* The image handler on its own: a screenshot of any size, split, pre-screened.

\* What can be drawn in the grid cells of a screenshot.
CellLayouts ==
    { Image("blank").cells, Image("scene").cells,
      <<"wood", "dots", "unreadable", "page", "rule", "label", "stone", "blank">>,
      <<"page", "rule", "dots", "blank", "unreadable", "blank", "page", "rule">> }

\* img = take_screenshot(): the configured region, of the default or a small size.
TakeScreenshot ==
    /\ \E width \in (1..MaxWidth) \cup {Image("scene").width},
          height \in (1..MaxHeight) \cup {Image("scene").height},
          cells \in CellLayouts :
          shot' = [width |-> width, height |-> height, cells |-> cells]
    /\ subimages' = <<>>
    /\ screened' = <<>>
    /\ ipc' = "shot"
    /\ UNCHANGED <<procVars, workerVars, ctlVars, callerVars, storeVars,
                   puts, rets, started, out, stopMid>>

\* subimages = split_image_into_subimages(img)
Split ==
    /\ ipc = "shot"
    /\ subimages' = split_image_into_subimages(shot)
    /\ ipc' = "split"
    /\ UNCHANGED <<shot, screened, procVars, workerVars, ctlVars, callerVars, storeVars,
                   puts, rets, started, out, stopMid>>

\* pre_screen_subimages(subimages)
PreScreen ==
    /\ ipc = "split"
    /\ screened' = pre_screen_subimages(subimages)
    /\ ipc' = "screened"
    /\ UNCHANGED <<shot, subimages, procVars, workerVars, ctlVars, callerVars, storeVars,
                   puts, rets, started, out, stopMid>>

NextImage == TakeScreenshot \/ Split \/ PreScreen

SpecImage == Init /\ [][NextImage]_vars

----------------------------------------------------------------------------
\* Properties.

\* C1: tasks begin processing strictly in enqueue order: the k-th task whose
\* _process_task begins is the k-th task that was put, none reordered or skipped.
C1_ProcessedInEnqueueOrder == \A k \in 1..Len(started) : started[k] = k

\* C2: at any time at most one worker thread is alive.
C2_AtMostOneWorker == Cardinality({t \in Threads : Alive(t)}) <= 1

\* C3: start() called while running is a no-op: the running flag, the worker
\* handle, the queue and every worker thread are as before, and no thread is
\* created.
C3_StartWhileRunningIsNoop ==
    [][(running /\ start) =>
          UNCHANGED <<running, worker_thread, task_counter, task_queue, csv_lock, wpc, wtask, items>>]_vars

C3_Witness == running /\ last_call = "start_noop"

\* C4: stop() called while a worker is inside a task returns only once that
\* worker has ended or the grace period is over, and a worker that was inside a
\* task when stop() was called never takes another task from the queue.
C4_StopMidTask ==
    [][/\ (cpc = "join" /\ cpc' = "idle") =>
             (~Alive(worker_thread) \/ last_call' = "stop_warning")
       /\ \A t \in Threads : stopMid[t] => ~Get(t)]_vars

\* C5: once stop() has cleared the running flag, no worker takes a task from
\* the queue, wherever it is in its loop.
C5_NoDequeueAfterStopSignal == [][\A t \in Threads : Get(t) => running]_vars

\* C6: a task whose processing has begun is never given up: whatever else
\* happens (a stop(), its return, a restart), its worker stays inside the task
\* with the results it has, can take its next step unless it waits for the CSV
\* lock, and leaves the task only with the task's outcome line; "updated" is
\* reported only by the store step after every screened image was requested.
C6_StopNeverInterruptsTask ==
    /\ [][\A t \in Threads : InProcessTask(t) =>
             \/ /\ wpc'[t] \in {"llm", "lock", "store"}
                /\ wtask'[t] = wtask[t]
                /\ Len(items'[t]) >= Len(items[t])
                /\ out'[wtask[t].seq] = out[wtask[t].seq]
             \/ /\ wpc'[t] = "check"
                /\ \E kind \in {"updated", "error"} :
                      /\ out'[wtask[t].seq] = Append(out[wtask[t].seq], kind)
                      /\ kind = "updated" =>
                            /\ wpc[t] = "store"
                            /\ Len(items[t]) = Len(Screened(wtask[t].image))]_vars
    /\ [](\A t \in Threads :
             (InProcessTask(t) /\ ~(wpc[t] = "lock" /\ csv_lock # NoThread))
                => ENABLED _process_task(t))

C6_Witness ==
    /\ stopMid[1]
    /\ last_call = "stop_warning"
    /\ started = <<1>>
    /\ out[1] = <<"updated">>
    /\ wpc[2] = "unborn"

\* C7: stop() always returns: while it joins the worker, the join can return
\* (the thread has ended, or the 30 seconds are over); when it returns with
\* the worker still alive it has printed the warning, raised nothing, and left
\* the worker as it was.
C7_StopAlwaysReturns ==
    /\ [](cpc = "join" => ENABLED JoinReturns)
    /\ [][(cpc = "join" /\ cpc' = "idle" /\ Alive(worker_thread)) =>
             (last_call' = "stop_warning" /\ UNCHANGED <<wpc, wtask, items>>)]_vars

C7_Witness ==
    /\ cpc = "idle"
    /\ last_call = "stop_warning"
    /\ InProcessTask(worker_thread)

\* C8: an error while a task is processed is caught: the worker is back at its
\* loop test with the CSV lock free, and a worker thread ends only at the loop
\* test, when running is false.
C8_TaskErrorCaught ==
    [][\A t \in Threads :
          /\ (InProcessTask(t) /\ out'[wtask[t].seq] = Append(out[wtask[t].seq], "error")) =>
                (wpc'[t] = "check" /\ csv_lock' # t)
          /\ (wpc[t] # "exited" /\ wpc'[t] = "exited") =>
                (wpc[t] = "check" /\ ~running)]_vars

C8_Witness ==
    /\ out[1] = <<"error">>
    /\ out[2] = <<"updated">>
    /\ wpc[2] = "unborn"

\* C9: with one calling thread, the n-th enqueue_screenshot returns n, and an
\* enqueue_screenshot in progress can always take its next statement, whatever
\* the workers do and however long the queue is.
C9_SequentialIds ==
    /\ \A k \in 1..Len(rets) : rets[k] = k
    /\ \A p \in HotkeyThreads : ppc[p] # "idle" => ENABLED enqueue_screenshot(p)

C9_Witness ==
    /\ rets = <<1, 2>>
    /\ \E t \in Threads : InProcessTask(t)
    /\ task_queue # <<>>

\* C10: with concurrent callers, the ids of the tasks in put order are
\* 1, 2, 3, ...: none twice, none skipped, in queue order.
C10_ConcurrentIds == \A k \in 1..Len(puts) : puts[k] = k

----------------------------------------------------------------------------
\* Properties of the store.

\* The names written in the rows of a file.
RowNames(file) == {file.rows[r].item_name : r \in 1..Len(file.rows)}

\* The key under which the store files an item whose name is a string.
KeyOf(item) == Strip(ItemGet(item, "item_name", Text(<<>>))[1])

\* The keys of the items of a batch that are not skipped.
ValidKeys(batch) ==
    {KeyOf(batch[i]) : i \in {j \in 1..Len(batch) : ~NameRaises(batch[j])}} \ {<<>>, NONE, ERROR}

\* The latest call was a batch with items that reached the end of the write.
Written == last_upsert.items # <<>> /\ ~last_upsert.raised

\* C11: after any sequence of update_inventory_csv calls the rows of the file
\* are in strictly ascending order of item_name: sorted, and no name twice.
C11_SortedNoDuplicates ==
    \A r \in 1..(Len(csv.rows) - 1) : StrLess(csv.rows[r].item_name, csv.rows[r + 1].item_name)

C11_Witness ==
    /\ Written
    /\ last_upsert.items = <<ItemOf("wood"), ItemOf("stone"), PaddedWood>>
    /\ last_upsert.before.rows # <<>>
    /\ Len(csv.rows) = 2

\* C12: no row of the file is named "NONE", "ERROR" or the empty string (nor
\* a name that is only blanks), whatever the batches held and however often
\* such items were submitted.
C12_NoSentinelRows ==
    \A r \in 1..Len(csv.rows) : Strip(csv.rows[r].item_name) \notin {<<>>, NONE, ERROR}

C12_Witness ==
    /\ Written
    /\ last_upsert.items = <<ItemOf("stone"), ErrorItem, ItemOf("blank"), EmptyName>>
    /\ last_upsert.before.rows # <<>>
    /\ RowNames(csv) = {STONE}
    /\ clock = MaxClock

\* C13: last write wins: after a batch was written, each name it holds has
\* exactly one row, with the counts of the last item of that name in the
\* batch and a timestamp not older than that of the row the name had before.
C13_LastWriteWins ==
    Written =>
       \A i \in 1..Len(last_upsert.items) :
          LET item == last_upsert.items[i]
              key == KeyOf(item)
          IN (/\ key \notin {<<>>, NONE, ERROR}
              /\ \A j \in (i + 1)..Len(last_upsert.items) : KeyOf(last_upsert.items[j]) # key)
             => /\ Cardinality({r \in 1..Len(csv.rows) : csv.rows[r].item_name = key}) = 1
                /\ \A r \in 1..Len(csv.rows) :
                      csv.rows[r].item_name = key =>
                         /\ csv.rows[r].available_count = CountField(item, "available_count")
                         /\ csv.rows[r].required_count = CountField(item, "required_count")
                         /\ \A b \in 1..Len(last_upsert.before.rows) :
                               last_upsert.before.rows[b].item_name = key =>
                                  last_upsert.before.rows[b].timestamp <= csv.rows[r].timestamp

C13_Witness ==
    /\ Written
    /\ last_upsert.items = <<WoodLater>>
    /\ \E b \in 1..Len(last_upsert.before.rows) :
          /\ last_upsert.before.rows[b].item_name = WOOD
          /\ last_upsert.before.rows[b].required_count = "10"
          /\ last_upsert.before.rows[b].timestamp = 1
    /\ \E r \in 1..Len(csv.rows) :
          /\ csv.rows[r].item_name = WOOD
          /\ csv.rows[r].required_count = "7"
          /\ csv.rows[r].timestamp = 2

\* C14: a batch written to a file that exists with another header leaves that
\* header as it is and keeps the rows the file had, merged with the items.
C14_ForeignHeaderKept ==
    (Written /\ last_upsert.before.exists /\ last_upsert.before.header # CSV_HEADER) =>
       /\ csv.header = last_upsert.before.header
       /\ RowNames(last_upsert.before) \subseteq RowNames(csv)

\* C15: when the final write raises OSError the file is what it was before
\* the write was attempted.
C15_FailedWriteKeepsFile ==
    (last_upsert.exc = "OSError" /\ last_upsert.fault \in WriteFaults)
    => csv = ensure_csv_header(last_upsert.before)

\* C28: when the store cannot be created or read, update_inventory_csv does
\* not raise for it and writes the valid items of the batch, as to an empty
\* table.
C28_LoadFaultDegrades ==
    (/\ last_upsert.fault \in LoadFaults
     /\ last_upsert.items # <<>>
     /\ \A i \in 1..Len(last_upsert.items) : ~NameRaises(last_upsert.items[i]))
    => /\ ~last_upsert.raised
       /\ RowNames(csv) = ValidKeys(last_upsert.items)

\* C16: a count that is null or absent in the item is written as the empty
\* value, for available_count and for required_count.
C16_NullCountEmpty ==
    Written =>
       \A i \in 1..Len(last_upsert.items) :
          LET item == last_upsert.items[i]
              key == KeyOf(item)
          IN (/\ key \notin {<<>>, NONE, ERROR}
              /\ \A j \in (i + 1)..Len(last_upsert.items) : KeyOf(last_upsert.items[j]) # key)
             => \A r \in 1..Len(csv.rows) :
                   csv.rows[r].item_name = key =>
                      /\ ItemGet(item, "available_count", None) = None =>
                            csv.rows[r].available_count = ""
                      /\ ItemGet(item, "required_count", None) = None =>
                            csv.rows[r].required_count = ""

----------------------------------------------------------------------------
\* Properties of the extraction and of a task end to end.

\* The responses of the requests of thread t's task, in order.
Resps(t) == [i \in 1..Len(requests[t]) |-> requests[t][i].resp]

\* The names a well-behaved answer gave for the tiles requested by thread t.
OkKeys(t) ==
    {Strip(ItemOf(requests[t][i].img.cell).item_name[1]) :
        i \in {j \in 1..Len(requests[t]) : requests[t][j].resp = "ok"}} \ {<<>>, NONE, ERROR}

\* C17: a request that fails (transport, status, unparsable text) does not
\* end the batch: there is one result per requested tile, in tile order, the
\* ERROR item with null counts where the request failed and the parsed answer
\* elsewhere, and call_llm_api goes on to the next tile until every tile it
\* was given has its result.
C17_FailureKeepsBatch ==
    /\ [](\A t \in Threads :
             /\ Len(items[t]) = Len(requests[t])
             /\ \A i \in 1..Len(requests[t]) :
                   /\ requests[t][i].img = Screened(wtask[t].image)[i]
                   /\ items[t][i] = IF requests[t][i].resp = "fail"
                                     THEN [item_name |-> Text(ERROR), required_count |-> None,
                                           available_count |-> None]
                                     ELSE ParsedJson(requests[t][i].img.cell, requests[t][i].resp))
    /\ [][\A t \in Threads :
             (/\ wpc[t] = "llm"
              /\ wpc'[t] # "llm"
              /\ ~ZeroSize(Screened(wtask[t].image)[Len(items[t]) + 1]))
             => /\ wpc'[t] = "lock"
                /\ Len(items'[t]) = Len(Screened(wtask[t].image))]_vars

C17_Witness ==
    /\ wpc[1] = "store"
    /\ Resps(1) = <<"ok", "fail", "ok">>
    /\ items[1] = <<ItemOf("wood"), ErrorItem, ItemOf("label")>>

\* C18: a response that parses but has not the shape asked for (item_name
\* null or missing, not an object) does not abort the task: unless the write
\* of the file itself fails, the task ends with every valid item of its other
\* tiles in the store.
C18_BadShapeRecovered ==
    [][\A t \in Threads :
          (/\ wpc[t] \in {"lock", "store"}
           /\ wpc'[t] = "check"
           /\ last_upsert'.exc # "OSError")
          => ValidKeys(items[t]) \subseteq RowNames(csv')]_vars

\* C19: within a task the endpoint is requested once for each tile the
\* pre-screen kept and never for a tile it dropped: the requests follow the
\* kept tiles in order, none twice, and when the task ends every kept tile
\* has been requested.
C19_EachTileOnce ==
    /\ [](\A t \in Threads :
             IF wtask[t] = NoTask
             THEN requests[t] = <<>>
             ELSE /\ Len(requests[t]) <= Len(Screened(wtask[t].image))
                  /\ \A i \in 1..Len(requests[t]) :
                        requests[t][i].img = Screened(wtask[t].image)[i])
    /\ [][\A t \in Threads :
             (InProcessTask(t) /\ wpc'[t] = "check")
             => Len(requests[t]) = Len(Screened(wtask[t].image))]_vars

\* C20: end to end for one task: when the task's items reach the store and
\* the write does not fail, the task reports the update and the names in the
\* file are those it had plus exactly the names answered for the requested
\* tiles, without the sentinels: a tile whose request failed adds no row, no
\* "ERROR" row, and does not keep the rows of the other tiles out.
C20_EndToEnd ==
    [][\A t \in Threads :
          (/\ wpc[t] = "store"
           /\ wpc'[t] = "check"
           /\ \A i \in 1..Len(items[t]) : ~NameRaises(items[t][i])
           /\ last_upsert'.exc # "OSError")
          => /\ out'[wtask[t].seq] = Append(out[wtask[t].seq], "updated")
             /\ RowNames(csv') = RowNames(csv) \cup OkKeys(t)
             /\ ERROR \notin RowNames(csv')
             /\ \A r \in 1..Len(csv'.rows) :
                   csv'.rows[r].item_name \in OkKeys(t) => csv'.rows[r].timestamp = clock']_vars

C20_Witness ==
    /\ out[1] = <<"updated">>
    /\ last_upsert.items = <<ItemOf("wood"), ItemOf("stone"), ErrorItem>>
    /\ last_upsert.before.rows = <<>>
    /\ Len(csv.rows) = 2
    /\ csv.rows[1].item_name = STONE
    /\ csv.rows[2].item_name = WOOD

----------------------------------------------------------------------------
\* Properties of the tiler and of the pre-screen.

\* The image is smaller than the grid.
TooSmall(img) == img.width < Cols \/ img.height < Rows

\* The tiles pre_screen_subimages returned.
Kept == {screened[k] : k \in 1..Len(screened)}

\* C21: for an image of W x H with W >= Cols and H >= Rows the split gives
\* Rows*Cols tiles in row-major order, the tile of row r and column c being
\* the rectangle at (c*(W div Cols), r*(H div Rows)) of width W div Cols and
\* height H div Rows: inside the image, no two overlapping, the remainder
\* pixels at the right and at the bottom in no tile.
C21_SplitGrid ==
    (ipc \in {"split", "screened"} /\ shot.width >= Cols /\ shot.height >= Rows) =>
       LET w == shot.width \div Cols
           h == shot.height \div Rows
       IN /\ Len(subimages) = Rows * Cols
          /\ \A r \in 0..(Rows - 1), c \in 0..(Cols - 1) :
                LET tile == subimages[r * Cols + c + 1]
                IN /\ tile.left = c * w /\ tile.top = r * h
                   /\ tile.right - tile.left = w /\ tile.bottom - tile.top = h
                   /\ w >= 1 /\ h >= 1
                   /\ tile.right <= Cols * w /\ Cols * w <= shot.width
                   /\ tile.bottom <= Rows * h /\ Rows * h <= shot.height
                   /\ tile.cell = shot.cells[r * Cols + c + 1]
          /\ \A i, j \in 1..Len(subimages) :
                i # j => \/ subimages[i].right <= subimages[j].left
                         \/ subimages[j].right <= subimages[i].left
                         \/ subimages[i].bottom <= subimages[j].top
                         \/ subimages[j].bottom <= subimages[i].top

C21_Witness ==
    /\ ipc = "split"
    /\ shot.width = 9 /\ shot.height = 5
    /\ subimages[Rows * Cols].left = 6 /\ subimages[Rows * Cols].right = 8
    /\ subimages[Rows * Cols].top = 2 /\ subimages[Rows * Cols].bottom = 4

\* C22: a task whose image is narrower than Cols or lower than Rows fails at
\* the split: it never gets to the pre-screen, the extraction or the store.
C22_SmallImageFailsAtSplit ==
    \A t \in Threads :
       (wtask[t] # NoTask /\ TooSmall(Image(wtask[t].image))) => wpc[t] \notin {"llm", "lock", "store"}

\* C23: the pre-screen fails open: a tile on which the OCR raises is among
\* the tiles pre_screen_subimages returns.
C23_FailOpen ==
    ipc = "screened" =>
       \A i \in 1..Len(subimages) : OcrRaises(subimages[i]) => subimages[i] \in Kept

C23_Witness ==
    /\ ipc = "screened"
    /\ \E i \in 1..Len(subimages) :
          /\ subimages[i].cell = "unreadable"
          /\ ~ZeroSize(subimages[i])
          /\ subimages[i] \in Kept
    /\ \E i \in 1..Len(subimages) : subimages[i] \notin Kept

\* The letters and the digits that occur in OCR texts.
Letters == {"W", "o", "d", "S", "t", "n", "e", "x"}
Digits == {"0", "1", "2", "5"}

\* C24: a tile the OCR can read is kept if and only if its text, trimmed of
\* whitespace, holds at least one letter or digit; it is dropped when the
\* trimmed text is empty or only punctuation.
C24_TextIffAlnum ==
    ipc = "screened" =>
       \A i \in 1..Len(subimages) :
          ~OcrRaises(subimages[i]) =>
             LET text == OcrText(subimages[i].cell)
                 trimmed == SelectSeq(text, LAMBDA ch : ch \notin Whitespace)
             IN /\ (subimages[i] \in Kept) <=>
                      (\E k \in 1..Len(text) : text[k] \in Letters \cup Digits)
                /\ (trimmed = <<>> \/ \A k \in 1..Len(trimmed) : trimmed[k] \notin Letters \cup Digits)
                      => subimages[i] \notin Kept

C24_Witness ==
    /\ ipc = "screened"
    /\ shot.width >= Cols /\ shot.height >= Rows
    /\ \E i, j, k, l \in 1..Len(subimages) :
          /\ subimages[i].cell = "rule" /\ subimages[i] \notin Kept
          /\ subimages[j].cell = "page" /\ subimages[j] \notin Kept
          /\ subimages[k].cell = "label" /\ subimages[k] \in Kept
          /\ subimages[l].cell = "wood" /\ subimages[l] \in Kept

\* The k-th smallest element of a set of numbers.
RECURSIVE Kth(_, _)
Kth(set, k) ==
    LET least == CHOOSE x \in set : \A y \in set : x <= y
    IN IF k = 1 THEN least ELSE Kth(set \ {least}, k - 1)

\* C25: pre_screen_subimages returns a subsequence of its input: the tiles
\* for which image_has_text is true, each once, in their original order.
C25_FilterSubsequence ==
    ipc = "screened" =>
       LET passing == {i \in 1..Len(subimages) : image_has_text(subimages[i])}
       IN /\ Len(screened) = Cardinality(passing)
          /\ \A k \in 1..Len(screened) : screened[k] = subimages[Kth(passing, k)]

C25_Witness ==
    /\ ipc = "screened"
    /\ shot.width >= Cols /\ shot.height >= Rows
    /\ Len(screened) = 4
    /\ screened[1].cell = "wood" /\ screened[4].cell = "stone"

----------------------------------------------------------------------------
\* Properties of the worker's handling of tasks.

\* C26: every task a worker takes from the queue reports exactly one outcome
\* line: no task has more than one, and whenever a worker is done with a task
\* the task has its line, the update, "no text" or the error.
C26_OneOutcomePerTask ==
    /\ [](\A k \in 1..MaxTasks :
             /\ Len(out[k]) <= 1
             /\ \A n \in 1..Len(out[k]) : out[k][n] \in {"updated", "no_text", "error"})
    /\ [][\A t \in Threads :
             (wtask[t] # NoTask /\ wtask'[t] = NoTask)
             => (out[wtask[t].seq] = <<>> /\ Len(out'[wtask[t].seq]) = 1)]_vars

C26_Witness ==
    /\ out[1] = <<"no_text">>
    /\ out[2] = <<"updated">>
    /\ \A t \in Threads : wtask[t] = NoTask

\* C27: the store is updated under one lock: at most one worker is inside
\* update_inventory_csv, it holds csv_lock, and the file changes only by a
\* step of the holder, also when two worker threads are alive.
C27_UpsertsSerialized ==
    /\ [](/\ Cardinality({t \in Threads : wpc[t] = "store"}) <= 1
          /\ \A t \in Threads : wpc[t] = "store" <=> csv_lock = t)
    /\ [][csv' # csv => \E t \in Threads : csv_lock = t /\ wpc[t] = "store" /\ csv_lock' = NoThread]_vars

C27_Witness ==
    \E t, u \in Threads : wpc[t] = "store" /\ csv_lock = t /\ wpc[u] = "lock"

\* C30: each task is consumed exactly once, whatever start(), stop() and
\* enqueue_screenshot do: no task begins processing twice, no two workers hold
\* the same task, a task taken from the queue is no longer in it, and a
\* worker that took a task always goes on to process it.
C30_ConsumedExactlyOnce ==
    /\ [](/\ \A i, j \in 1..Len(started) : i # j => started[i] # started[j]
          /\ \A t, u \in Threads : (t # u /\ wtask[t] # NoTask) => wtask[t].seq # wtask[u].seq
          /\ \A t \in Threads : \A q \in 1..Len(task_queue) :
                /\ task_queue[q].seq # wtask[t].seq
                /\ \A i \in 1..Len(started) : started[i] # task_queue[q].seq
          /\ \A t \in Threads : wpc[t] = "run" => ENABLED ProcessBegin(t))
    /\ [][\A t \in Threads :
             wpc[t] = "run" =>
                \/ (wpc'[t] = "run" /\ wtask'[t] = wtask[t])
                \/ started' = Append(started, wtask[t].seq)]_vars

C30_Witness ==
    /\ started = <<1, 2>>
    /\ out[1] # <<>> /\ out[2] # <<>>
    /\ wpc[2] # "unborn"
    /\ last_call = "stop_joined"

\* C29: while the processor is running and stop() is not called, every task
\* put in the queue is eventually taken by the worker and processed to its
\* outcome line.
C29_EveryTaskProcessed ==
    \A k \in 1..MaxTasks : (running /\ Len(puts) >= k) ~> (out[k] # <<>> /\ k \in {started[i] : i \in 1..Len(started)})

C29_Witness ==
    /\ running
    /\ Len(puts) = MaxTasks
    /\ \A k \in 1..MaxTasks : out[k] # <<>>
    /\ started = [k \in 1..MaxTasks |-> k]

----------------------------------------------------------------------------
\* Further properties of update_inventory_csv.

\* C31: the rewrite is atomic: after a call with items the file is the
\* complete table it was before the call or the complete table the call
\* writes, header and all merged rows, never an empty or partly written one.
C31_AtomicRewrite ==
    last_upsert.items # <<>> =>
       LET loaded == IF last_upsert.fault \in LoadFaults THEN last_upsert.fault ELSE "none"
       IN \/ csv = last_upsert.before
          \/ csv = ensure_csv_header(last_upsert.before)
          \/ csv = update_inventory_csv(last_upsert.items, last_upsert.before,
                                        clock, loaded, 0).file

\* The names of a file with their counts, the timestamps left out.
NamesAndCounts(file) ==
    {[item_name |-> file.rows[r].item_name,
      available_count |-> file.rows[r].available_count,
      required_count |-> file.rows[r].required_count] : r \in 1..Len(file.rows)}

\* The latest call was a batch with items, loaded and written without a fault.
WrittenWithoutFault == Written /\ last_upsert.fault = "none"

\* C32: a batch whose names all have rows already leaves the number of rows
\* as it was, and the same batch written a second time leaves the names and
\* the counts of the file as the first time left them.
C32_RerunDoesNotGrow ==
    /\ [](WrittenWithoutFault /\ ValidKeys(last_upsert.items) \subseteq RowNames(last_upsert.before)
            => Len(csv.rows) = Len(last_upsert.before.rows))
    /\ [][(/\ WrittenWithoutFault
           /\ WrittenWithoutFault'
           /\ last_upsert'.items = last_upsert.items
           /\ last_upsert'.before = csv)
          => NamesAndCounts(csv') = NamesAndCounts(csv)]_vars

C32_Witness ==
    /\ WrittenWithoutFault
    /\ last_upsert.items = <<ItemOf("wood"), ItemOf("stone"), PaddedWood>>
    /\ Len(csv.rows) = 2
    /\ NamesAndCounts(last_upsert.before) = NamesAndCounts(csv)
    /\ \A r \in 1..Len(csv.rows) : last_upsert.before.rows[r].timestamp < csv.rows[r].timestamp

\* The row of a name that is last in the file.
LastRowOf(file, name) ==
    file.rows[CHOOSE r \in 1..Len(file.rows) :
                 /\ file.rows[r].item_name = name
                 /\ \A q \in (r + 1)..Len(file.rows) : file.rows[q].item_name # name]

\* C33: when the file holds several rows of a name, the row that is later in
\* the file is the one loaded: after the next batch is written each name the
\* file had has a single row, and unless the batch names it that row is the
\* last one the name had.
C33_LaterDuplicateKept ==
    WrittenWithoutFault =>
       \A name \in RowNames(last_upsert.before) :
          /\ Cardinality({r \in 1..Len(csv.rows) : csv.rows[r].item_name = name}) = 1
          /\ name \notin ValidKeys(last_upsert.items)
                => \E r \in 1..Len(csv.rows) : csv.rows[r] = LastRowOf(last_upsert.before, name)

C33_Witness ==
    /\ WrittenWithoutFault
    /\ last_upsert.before.rows \in DuplicateRows
    /\ \E r \in 1..Len(csv.rows) :
          /\ csv.rows[r].item_name \notin ValidKeys(last_upsert.items)
          /\ csv.rows[r] = last_upsert.before.rows[3]
    /\ Len(csv.rows) = 2

\* The number of items of a batch that are not skipped.
NonSentinelItems(batch) ==
    Cardinality({i \in 1..Len(batch) : KeyOf(batch[i]) \notin {<<>>, NONE, ERROR}})

\* C34: the counts logged for a batch that was written: updated plus added is
\* the number of its items that are not skipped, added is the number of its
\* names that had no row before the call, and total is the number of
\* distinct names in the file after the call.
C34_SummaryCounts ==
    WrittenWithoutFault =>
       /\ last_upsert.summary.logged
       /\ last_upsert.summary.updated + last_upsert.summary.added
             = NonSentinelItems(last_upsert.items)
       /\ last_upsert.summary.added
             = Cardinality(ValidKeys(last_upsert.items) \ RowNames(last_upsert.before))
       /\ last_upsert.summary.total = Cardinality(RowNames(csv))
       /\ last_upsert.summary.total = Len(csv.rows)

C34_Witness ==
    /\ WrittenWithoutFault
    /\ last_upsert.items = <<ItemOf("wood"), ItemOf("stone"), PaddedWood>>
    /\ RowNames(last_upsert.before) = {STONE}
    /\ last_upsert.summary = [updated |-> 2, added |-> 1, total |-> 2, logged |-> TRUE]

----------------------------------------------------------------------------
\* Further properties of _process_task.

\* Tile a comes before tile b in the grid, rows top to bottom and each row
\* left to right.
RowMajorBefore(a, b) == a.top < b.top \/ (a.top = b.top /\ a.left < b.left)

\* C35: within a task the steps follow each other as split and pre-screen,
\* extraction, store: the requests are made one at a time, in the row-major
\* order of the tiles the pre-screen kept, and the store is written at most
\* once, by the step that follows the request of the last kept tile.
C35_PipelineOrder ==
    /\ [](\A t \in Threads :
             /\ \A i, j \in 1..Len(requests[t]) :
                   i < j => RowMajorBefore(requests[t][i].img, requests[t][j].img)
             /\ wpc[t] \in {"lock", "store"} =>
                   /\ wtask[t].seq \in {started[k] : k \in 1..Len(started)}
                   /\ Len(requests[t]) = Len(Screened(wtask[t].image)))
    /\ [][/\ \A t \in Threads :
               /\ wpc'[t] = "llm" => wpc[t] \in {"run", "llm"}
               /\ wpc'[t] = "lock" => wpc[t] \in {"llm", "lock"}
               /\ wpc'[t] = "store" => wpc[t] \in {"lock", "store"}
               /\ Len(requests'[t]) <= Len(requests[t]) + 1
          /\ (csv' # csv \/ last_upsert' # last_upsert) =>
                \E t \in Threads :
                   /\ wpc[t] = "store"
                   /\ Len(requests[t]) = Len(Screened(wtask[t].image))
                   /\ wtask'[t] = NoTask]_vars

C35_Witness ==
    /\ out[1] = <<"updated">>
    /\ Len(last_upsert.items) = 3
    /\ last_upsert.items[1] = ItemOf("wood")
    /\ last_upsert.items[2] = ItemOf("stone")
    /\ RowNames(csv) = {WOOD, STONE}

----------------------------------------------------------------------------
\* Further properties of the store and of the queue.

\* C36: a batch that is written leaves every name of the file that none of
\* its items names as it was: the file still has a row of that name, with
\* the timestamp and the counts the name had before the call.
C36_OtherRowsUntouched ==
    WrittenWithoutFault =>
       \A name \in RowNames(last_upsert.before) \ ValidKeys(last_upsert.items) :
          \E r \in 1..Len(csv.rows), b \in 1..Len(last_upsert.before.rows) :
             /\ last_upsert.before.rows[b].item_name = name
             /\ csv.rows[r] = last_upsert.before.rows[b]

\* C37: a task none of whose tiles passes the pre-screen ends in the step
\* that screened it, with the outcome "no text detected": no request is made
\* for it, the store and its lock are not touched, and its worker is back at
\* the loop test, free for the next task.
C37_NoTextSkipsAll ==
    /\ [](\A t \in Threads :
             (wtask[t] # NoTask /\ Screened(wtask[t].image) = <<>>)
             => wpc[t] = "run" /\ requests[t] = <<>> /\ items[t] = <<>>)
    /\ [][\A t \in Threads :
             (/\ wpc[t] = "run"
              /\ Screened(wtask[t].image) = <<>>
              /\ wpc'[t] # "run")
             => /\ out'[wtask[t].seq] = <<"no_text">>
                /\ wpc'[t] = "check"
                /\ wtask'[t] = NoTask
                /\ requests'[t] = <<>>
                /\ UNCHANGED <<csv, last_upsert, csv_lock, clock>>]_vars

C37_Witness ==
    /\ out[1] = <<"no_text">>
    /\ started = <<1, 2>>
    /\ last_upsert = NoUpsert
    /\ \E t \in Threads : wpc[t] = "llm" /\ wtask[t].seq = 2

\* The tasks whose _process_task has begun.
Begun == {started[k] : k \in 1..Len(started)}

\* C38: tasks in the queue while the processor is stopped stay there, in
\* their order, none lost and none taken; once it is started again they are
\* processed first in first out, before the tasks put after them.
C38_QueueSurvivesStop ==
    /\ [](/\ \A q \in 1..(Len(task_queue) - 1) : task_queue[q].seq < task_queue[q + 1].seq
          /\ \A k \in 1..Len(puts) :
                \/ k \in Begun
                \/ \E q \in 1..Len(task_queue) : task_queue[q].seq = k
                \/ \E t \in Threads : wtask[t].seq = k)
    /\ [][/\ ~running =>
               /\ Len(task_queue') >= Len(task_queue)
               /\ SubSeq(task_queue', 1, Len(task_queue)) = task_queue
          /\ \A k \in Begun' \ Begun : \A j \in 1..(k - 1) : j \in Begun]_vars

\* The places of a batch at which a key occurs.
Occurrences(batch, key) ==
    {i \in 1..Len(batch) : ~NameRaises(batch[i]) /\ KeyOf(batch[i]) = key}

\* C39: a name that occurs more than once in a batch that is written has a
\* single row, written at this call, with the counts of its last occurrence
\* in the batch.
C39_LastOccurrenceInBatch ==
    Written =>
       \A key \in ValidKeys(last_upsert.items) :
          LET places == Occurrences(last_upsert.items, key)
              last == last_upsert.items[CHOOSE i \in places : \A j \in places : j <= i]
          IN Cardinality(places) > 1 =>
                /\ Cardinality({r \in 1..Len(csv.rows) : csv.rows[r].item_name = key}) = 1
                /\ \E r \in 1..Len(csv.rows) :
                      csv.rows[r] = [timestamp |-> clock,
                                     item_name |-> key,
                                     available_count |-> CountField(last, "available_count"),
                                     required_count |-> CountField(last, "required_count")]

C39_Witness ==
    /\ WrittenWithoutFault
    /\ last_upsert.items = <<ItemOf("wood"), ItemOf("stone"), PaddedWood>>
    /\ last_upsert.before.rows = <<>>
    /\ \E r \in 1..Len(csv.rows) :
          /\ csv.rows[r].item_name = WOOD
          /\ csv.rows[r].required_count = "3"
          /\ csv.rows[r].available_count = ""
    /\ Len(csv.rows) = 2

\* C40: update_inventory_csv with an empty list does nothing: the file is not
\* created when it does not exist and is as it was when it exists.
C40_EmptyBatchNoop ==
    [][last_upsert'.items = <<>> => (csv' = csv /\ clock' = clock /\ ~last_upsert'.raised)]_vars

C40_Witness ==
    /\ last_upsert.items = <<>>
    /\ last_upsert.before = csv
    /\ \/ ~csv.exists /\ last_upsert.fault = "create"
       \/ csv.rows # <<>>

====
